---- MODULE Spec2Model ----
(***************************************************************************)
(* SolarmanV5 transport of util/modbus: the session (SolarmanV5Connection, *)
(* solarmanv5.go), its envelope codec and the Modbus client façade         *)
(* (SolarmanV5Client, solarmanv5_client.go).                               *)
(*                                                                         *)
(* Four specifications share the variables:                                *)
(*   Spec / FairSpec  goroutines calling the exported API of one session   *)
(*                    concurrently (client operations, Connect, Close);    *)
(*   HarnessSpec      one in-package caller applying the unexported        *)
(*                    methods to a session directly, the way               *)
(*                    solarmanv5_test.go does (buildRequestPacket,         *)
(*                    readResponse, parseResponse on a connected socket);  *)
(*   CodecSpec        the pure functions of the codec applied to inputs    *)
(*                    (buildRequestPacket, parseResponse, fixDoubleCRC,    *)
(*                    crc16, parseModbusResponse, calculateChecksum,       *)
(*                    buildModbusRequest, NewSolarmanV5Connection);        *)
(*   SessionsSpec /   goroutines calling the exported API of a session     *)
(*   FairSessionsSpec and of its clones, with the setters and Clone.       *)
(* Bytes are integers 0..255, byte slices are sequences.                   *)
(***************************************************************************)
EXTENDS Integers, Sequences, FiniteSets, TLC

(* ---- protocol constants, solarmanv5.go:15-31 ---- *)
solarmanStart == 165
solarmanEnd == 21
solarmanRequestCmd == 17680
solarmanFrameType == 2
solarmanSensorType == 0
headerSize == 11
requestPayloadMin == 15
responsePayloadMin == 14
trailerSize == 2
minPacketSize == headerSize + requestPayloadMin + trailerSize

(* ---- bounds of the model ---- *)
MaxConns == 2
MaxBuilds == 2
MaxReads == 1

NumThreads == 2
MaxSessions == 2

Threads == 1..NumThreads
Sessions == 1..MaxSessions

NIL == 0
Free == 0
NoOp == [fc |-> 0, qty |-> 0, wqty |-> 0, dlen |-> 0]
\* readResponse has not been called: avail is what the socket held when it
\* was, err its error, resp the response it returned, consumed the bytes the
\* two Reads took off the stream.
NotRead == [done |-> FALSE, avail |-> <<>>, err |-> "none", resp |-> <<>>,
            consumed |-> 0]
\* parseResponse has not been called.
NotParsed == [done |-> FALSE, err |-> "none", frame |-> <<>>]
\* No setter, SetDeadline or Clone has been called.
NoEvent == [op |-> "none", sid |-> 0, src |-> 0, arg |-> 0]
\* A goroutine outside every call.
Idle == [pc |-> "idle", sid |-> 0]

\* No SolarmanV5Connection: what the factory returns with an error.
NoSession == [address |-> <<>>, loggerSerial |-> 0, serial |-> 0,
              timeout |-> 0, slaveID |-> 0, conn |-> NIL, mutex |-> Free]

\* A client operation with its arguments: function code, address (the read
\* address for FC 0x17), quantity (the value for FC 0x05/0x06, the read
\* quantity for FC 0x17), write address and write quantity (FC 0x17), the
\* masks (FC 0x16) and the value bytes.
NoCall == [fc |-> 0, addr |-> 0, qty |-> 0, waddr |-> 0, wqty |-> 0,
           andMask |-> 0, orMask |-> 0, value |-> <<>>]
\* No codec function has been applied.  op names the function, in its input,
\* ser/now/fc/slave its other arguments, out the bytes it returned, prev the
\* bytes the call before returned, err its error, efc the function code an
\* exception carries, val the number it returned (a CRC, an exception code),
\* call the client operation a request was built for, addr the address handed
\* to the factory, made the session it returned.
NoCodec == [op |-> "none", in |-> <<>>, ser |-> 0, now |-> 0, fc |-> 0,
            slave |-> 0, out |-> <<>>, prev |-> <<>>, err |-> "none",
            efc |-> 0, val |-> 0, call |-> NoCall, addr |-> <<>>,
            made |-> NoSession]

VARIABLES
  conn,      \* c.conn: NIL, or the id of the open TCP connection
  serial,    \* c.serial, uint16
  mutex,     \* c.mutex: Free, or the goroutine (1..NumThreads) whose Lock succeeded
  nconn,     \* number of TCP connections opened so far (ids 1..nconn)
  pc,        \* per goroutine: where it stands
  op,        \* per goroutine: the operation it called, with its arguments
  res,       \* per goroutine: what the operation returned
  stream,    \* harness: bytes the peer has sent that no Read has consumed yet
  handed,    \* harness: the last readResponse call and its outcome
  lastpkt,   \* harness: the packet the last buildRequestPacket returned
  nbuilt,    \* harness: number of buildRequestPacket calls so far
  nread,     \* harness: number of readResponse calls so far
  s0,        \* harness: c.serial when the harness started
  parsed,    \* harness: the parseResponse call on the response read
  codec,     \* codec functions: the last function applied, its input and result
  sess,      \* sessions: the SolarmanV5Connection in each slot, or NoSession
  gor,       \* sessions: per goroutine, where it stands and on which session
  ev         \* sessions: the last setter, SetDeadline or Clone call

vars == <<conn, serial, mutex, nconn, pc, op, res,
          stream, handed, lastpkt, nbuilt, nread, s0, parsed, codec,
          sess, gor, ev>>
sessionVars == <<conn, serial, mutex, nconn>>
threadVars == <<pc, op, res>>
apiVars == <<sess, gor, ev>>
harnessVars == <<stream, handed, lastpkt, nbuilt, nread, s0, parsed, codec,
                 apiVars>>

(* ---- byte helpers ---- *)
Min(a, b) == IF a < b THEN a ELSE b

\* binary.Write(buf, binary.LittleEndian, uint16)
LE16(v) == << v % 256, (v \div 256) % 256 >>

\* binary.Write(buf, binary.LittleEndian, uint32)
LE32(v) == << v % 256, (v \div 256) % 256, (v \div 65536) % 256,
              (v \div 16777216) % 256 >>

\* binary.LittleEndian.Uint16(b[i:i+2]), i counted from 1
Uint16LE(b, i) == b[i] + 256 * b[i + 1]

Take(s, n) == SubSeq(s, 1, n)
Drop(s, n) == SubSeq(s, n + 1, Len(s))
Zeros(n) == [i \in 1..n |-> 0]

\* The sum of data[lo..hi], by halves.
RECURSIVE SumRange(_, _, _)
SumRange(data, lo, hi) ==
  IF lo > hi THEN 0
  ELSE IF lo = hi THEN data[lo]
  ELSE LET mid == (lo + hi) \div 2
       IN SumRange(data, lo, mid) + SumRange(data, mid + 1, hi)

SumBytes(data) == SumRange(data, 1, Len(data))

\* A checksum that saturates at 255 instead of wrapping.
calculateChecksumSaturating(data) == Min(SumBytes(data), 255)

\* calculateChecksum: the low 8 bits of the sum (the uint32 accumulator cannot
\* wrap: a packet has fewer than 2^16 + 13 bytes of at most 255 each)
calculateChecksum(data) == SumBytes(data) % 256

(***************************************************************************)
(* Modbus client façade, solarmanv5_client.go.  An operation is recorded   *)
(* as [fc, qty, wqty, dlen]: function code, quantity (the value for FC     *)
(* 0x05/0x06, the read quantity for FC 0x17), write quantity (FC 0x17) and *)
(* len(value).  Quantities are uint16.                                     *)
(***************************************************************************)
Call(fc, q, wq, n) == [fc |-> fc, qty |-> q, wqty |-> wq, dlen |-> n]

ReadBitCalls == {Call(fc, q, 0, 0) : fc \in {1, 2}, q \in {0, 1, 2000, 2001}}
ReadRegCalls == {Call(fc, q, 0, 0) : fc \in {3, 4}, q \in {0, 1, 125, 126}}
WriteSingleCalls ==
  {Call(5, v, 0, 0) : v \in {0, 1, 65280}} \cup {Call(6, 4660, 0, 0)}
WriteCoilsCalls ==
  {Call(15, q, 0, (q + 7) \div 8) : q \in {0, 1, 9, 1968, 1969}}
    \cup {Call(15, 9, 0, 1), Call(15, 1968, 0, 247)}
WriteRegsCalls ==
  {Call(16, q, 0, 2 * q) : q \in {0, 1, 123, 124}}
    \cup {Call(16, 1, 0, 1), Call(16, 123, 0, 247)}
ReadWriteCalls ==
  {Call(23, rq, 1, 2) : rq \in {0, 1, 125, 126}}
    \cup {Call(23, 1, wq, 2 * wq) : wq \in {0, 121, 122}}
    \cup {Call(23, 1, 1, 3), Call(23, 125, 121, 241)}
OtherCalls == {Call(22, 0, 0, 6), Call(24, 0, 0, 0)}

ClientCalls ==
  ReadBitCalls \cup ReadRegCalls \cup WriteSingleCalls \cup WriteCoilsCalls
    \cup WriteRegsCalls \cup ReadWriteCalls \cup OtherCalls

ConnectCall == Call(-1, 0, 0, 0)   \* SolarmanV5Connection.Connect()
CloseCall == Call(-2, 0, 0, 0)     \* SolarmanV5Connection.Close()

\* Argument checks with the register-read bound off by one and the data
\* lengths not looked at.
ArgsOKLoose(o) ==
  CASE o.fc \in {1, 2} -> ~(o.qty < 1 \/ o.qty > 2000)
    [] o.fc \in {3, 4} -> ~(o.qty < 1 \/ o.qty > 126)
    [] o.fc = 5 -> ~(o.qty # 0 /\ o.qty # 65280)
    [] o.fc = 15 -> ~(o.qty < 1 \/ o.qty > 1968)
    [] o.fc = 16 -> ~(o.qty < 1 \/ o.qty > 123)
    [] o.fc = 23 -> ~(o.qty < 1 \/ o.qty > 125)
                      /\ ~(o.wqty < 1 \/ o.wqty > 121)
    [] OTHER -> TRUE

\* The argument checks each operation makes before it builds its request.
ArgsOK(o) ==
  CASE o.fc \in {1, 2} -> ~(o.qty < 1 \/ o.qty > 2000)
    [] o.fc \in {3, 4} -> ~(o.qty < 1 \/ o.qty > 125)
    [] o.fc = 5 -> ~(o.qty # 0 /\ o.qty # 65280)
    [] o.fc = 15 -> ~(o.qty < 1 \/ o.qty > 1968)
                      /\ ~(o.dlen # (o.qty + 7) \div 8)
    [] o.fc = 16 -> ~(o.qty < 1 \/ o.qty > 123) /\ ~(o.dlen # o.qty * 2)
    [] o.fc = 23 -> ~(o.qty < 1 \/ o.qty > 125)
                      /\ ~(o.wqty < 1 \/ o.wqty > 121)
                      /\ ~(o.dlen # o.wqty * 2)
    [] OTHER -> TRUE

(***************************************************************************)
(* Goroutines on one session.  sync.Mutex is not reentrant: Lock blocks    *)
(* while the mutex is locked, whoever locked it.                           *)
(***************************************************************************)
\* Program points that are a call of c.mutex.Lock():
\*   sm_lock          SendModbusFrame, line 171
\*   sm_connect_lock  Connect called from SendModbusFrame (line 174), line 101
\*   cn_lock          Connect called by the user, line 101
\*   cl_lock          Close called by the user, line 119
LockPoints == {"sm_lock", "sm_connect_lock", "cn_lock", "cl_lock"}

AfterLock(p) ==
  CASE p = "sm_lock" -> "sm_connect_lock"
    [] p = "sm_connect_lock" -> "sm_connect_body"
    [] p = "cn_lock" -> "cn_body"
    [] p = "cl_lock" -> "cl_body"

\* A client whose failed argument check drops the socket before returning.
ClientCallDropsSocket(t) ==
  /\ pc[t] = "idle"
  /\ \E o \in ClientCalls :
       /\ op' = [op EXCEPT ![t] = o]
       /\ IF ArgsOK(o)
            THEN /\ pc' = [pc EXCEPT ![t] = "sm_lock"]
                 /\ res' = res
                 /\ conn' = conn
            ELSE /\ pc' = [pc EXCEPT ![t] = "returned"]
                 /\ res' = [res EXCEPT ![t] = "invalid_argument"]
                 /\ conn' = NIL
  /\ UNCHANGED <<serial, mutex, nconn, harnessVars>>

\* An operation of the client: argument checks, buildModbusRequest, and the
\* call of conn.SendModbusFrame; a failed check returns at once.
ClientCall(t) ==
  /\ pc[t] = "idle"
  /\ \E o \in ClientCalls :
       /\ op' = [op EXCEPT ![t] = o]
       /\ IF ArgsOK(o)
            THEN /\ pc' = [pc EXCEPT ![t] = "sm_lock"]
                 /\ res' = res
            ELSE /\ pc' = [pc EXCEPT ![t] = "returned"]
                 /\ res' = [res EXCEPT ![t] = "invalid_argument"]
  /\ UNCHANGED <<sessionVars, harnessVars>>

CallConnect(t) ==
  /\ pc[t] = "idle"
  /\ pc' = [pc EXCEPT ![t] = "cn_lock"]
  /\ op' = [op EXCEPT ![t] = ConnectCall]
  /\ UNCHANGED <<res, sessionVars, harnessVars>>

CallClose(t) ==
  /\ pc[t] = "idle"
  /\ pc' = [pc EXCEPT ![t] = "cl_lock"]
  /\ op' = [op EXCEPT ![t] = CloseCall]
  /\ UNCHANGED <<res, sessionVars, harnessVars>>

\* A Lock that does not wait for the mutex to be unlocked.
LockNoWait(t) ==
  /\ pc[t] \in LockPoints
  /\ mutex' = t
  /\ pc' = [pc EXCEPT ![t] = AfterLock(pc[t])]
  /\ UNCHANGED <<conn, serial, nconn, op, res, harnessVars>>

\* c.mutex.Lock()
Lock(t) ==
  /\ pc[t] \in LockPoints
  /\ mutex = Free
  /\ mutex' = t
  /\ pc' = [pc EXCEPT ![t] = AfterLock(pc[t])]
  /\ UNCHANGED <<conn, serial, nconn, op, res, harnessVars>>

\* Connect after its Lock: the conn check, net.DialTimeout, and the deferred
\* Unlock.  Called from SendModbusFrame, an error makes SendModbusFrame
\* return it (its own deferred Unlock runs); otherwise line 178 is next.
ConnectBody(t) ==
  /\ pc[t] \in {"cn_body", "sm_connect_body"}
  /\ \E dialed \in BOOLEAN :
       LET ok == conn # NIL \/ (dialed /\ nconn < MaxConns)
       IN /\ IF conn = NIL /\ ok
               THEN conn' = nconn + 1 /\ nconn' = nconn + 1
               ELSE UNCHANGED <<conn, nconn>>
          /\ IF pc[t] = "sm_connect_body" /\ ok
               THEN /\ pc' = [pc EXCEPT ![t] = "sm_deadline"]
                    /\ res' = res
               ELSE /\ pc' = [pc EXCEPT ![t] = "returned"]
                    /\ res' = [res EXCEPT ![t] =
                                 IF ok THEN "ok" ELSE "connect_error"]
  /\ mutex' = Free
  /\ UNCHANGED <<serial, op, harnessVars>>

\* Close after its Lock, and the deferred Unlock.
CloseBody(t) ==
  /\ pc[t] = "cl_body"
  /\ conn' = NIL
  /\ mutex' = Free
  /\ pc' = [pc EXCEPT ![t] = "returned"]
  /\ res' = [res EXCEPT ![t] = "ok"]
  /\ UNCHANGED <<serial, nconn, op, harnessVars>>

\* The caller has its result and is free to call again.
Return(t) ==
  /\ pc[t] = "returned"
  /\ pc' = [pc EXCEPT ![t] = "idle"]
  /\ op' = [op EXCEPT ![t] = NoOp]
  /\ res' = [res EXCEPT ![t] = "none"]
  /\ UNCHANGED <<sessionVars, harnessVars>>

Step(t) ==
  \/ ClientCall(t)
  \/ CallConnect(t)
  \/ CallClose(t)
  \/ Lock(t)
  \/ ConnectBody(t)
  \/ CloseBody(t)
  \/ Return(t)

\* NewSolarmanV5Connection: serial 1, no socket, mutex unlocked.
Init ==
  /\ conn = NIL
  /\ serial = 1
  /\ mutex = Free
  /\ nconn = 0
  /\ pc = [t \in Threads |-> "idle"]
  /\ op = [t \in Threads |-> NoOp]
  /\ res = [t \in Threads |-> "none"]
  /\ stream = <<>>
  /\ handed = NotRead
  /\ lastpkt = <<>>
  /\ nbuilt = 0
  /\ nread = 0
  /\ s0 = 1
  /\ parsed = NotParsed
  /\ codec = NoCodec
  /\ sess = [i \in Sessions |-> NoSession]
  /\ gor = [t \in Threads |-> Idle]
  /\ ev = NoEvent

Next == \E t \in Threads : Step(t)

Spec == Init /\ [][Next]_vars

\* A goroutine inside a call: the steps the Go scheduler takes for it.  It
\* runs every goroutine that is not blocked.
Run(t) == Lock(t) \/ ConnectBody(t) \/ CloseBody(t)

FairSpec == Spec /\ \A t \in Threads : WF_vars(Run(t))

(***************************************************************************)
(* Envelope codec and response reader, applied by one in-package caller.   *)
(***************************************************************************)
\* c.loggerSerial of the session under test (solarmanv5_test.go:12)
loggerSerial == 305419896

\* An increment that does not wrap at 2^16, and one that counts twice.
IncSerialNoWrap(s) == s + 1
IncSerialTwice(s) == (s + 2) % 65536

\* c.serial++ on a uint16
IncSerial(s) == (s + 1) % 65536

\* A builder that writes the sequence big-endian.
buildRequestPacketBigEndianSerial(ser, frame, now) ==
  LET payloadSize == requestPayloadMin + Len(frame)
      header == <<solarmanStart>> \o LE16(payloadSize % 65536)
                  \o LE16(solarmanRequestCmd)
                  \o <<(ser \div 256) % 256, ser % 256>> \o LE32(loggerSerial)
      payload == <<solarmanFrameType>> \o LE16(solarmanSensorType) \o LE32(0)
                   \o LE32(now) \o frame
      data == Tail(header \o payload)
  IN header \o payload \o <<calculateChecksum(data), solarmanEnd>>

\* buildRequestPacket: the packet it returns; now is time.Now().Unix().
buildRequestPacket(ser, frame, now) ==
  LET payloadSize == requestPayloadMin + Len(frame)
      header == <<solarmanStart>> \o LE16(payloadSize % 65536)
                  \o LE16(solarmanRequestCmd) \o LE16(ser) \o LE32(loggerSerial)
      payload == <<solarmanFrameType>> \o LE16(solarmanSensorType) \o LE32(0)
                   \o LE32(now) \o frame
      data == Tail(header \o payload)
  IN header \o payload \o <<calculateChecksum(data), solarmanEnd>>

\* conn.Read(buf) with len(buf) = size on a TCP stream holding avail unread
\* bytes, of which n have arrived when Read returns: the number of bytes
\* Read puts into buf.  readResponse only looks at Read's error.
ReadCount(n, size, avail) == Min(n, Min(size, avail))

\* readResponse on a socket whose unread bytes are s; n1 and n2 are how many
\* bytes have arrived when the first and the second Read return.  With no
\* unread byte a Read fails when the deadline passes.
readResponse(s, n1, n2) ==
  LET a1 == ReadCount(n1, headerSize, Len(s))
      headerBuf == Take(s, a1) \o Zeros(headerSize - a1)
      r1 == Drop(s, a1)
      payloadLength == Uint16LE(headerBuf, 2)
      size2 == payloadLength + trailerSize
      a2 == ReadCount(n2, size2, Len(r1))
      remainingBuf == Take(r1, a2) \o Zeros(size2 - a2)
      fullResponse == headerBuf \o remainingBuf
      checksumIndex == Len(fullResponse) - 1
      Fail(e, n) == [done |-> TRUE, avail |-> s, err |-> e, resp |-> <<>>,
                     consumed |-> n]
  IN IF Len(s) = 0 THEN Fail("read_header", 0)
     ELSE IF headerBuf[1] # solarmanStart THEN Fail("start_byte", a1)
     ELSE IF Len(r1) = 0 THEN Fail("read_payload", a1)
     ELSE IF calculateChecksum(SubSeq(fullResponse, 2, checksumIndex - 1))
               # fullResponse[checksumIndex]
       THEN Fail("checksum", a1 + a2)
     ELSE IF fullResponse[Len(fullResponse)] # solarmanEnd
       THEN Fail("end_byte", a1 + a2)
     ELSE [done |-> TRUE, avail |-> s, err |-> "none", resp |-> fullResponse,
           consumed |-> a1 + a2]

\* parseResponse: the Modbus frame inside a response envelope, or an error
parseResponse(response) ==
  LET payload == SubSeq(response, headerSize + 1, Len(response) - trailerSize)
      frameType == payload[1]
      status == payload[2]
      modbusFrame == Drop(payload, responsePayloadMin)
      Fail(e) == [done |-> TRUE, err |-> e, frame |-> <<>>]
  IN IF Len(response) < minPacketSize THEN Fail("too_short")
     ELSE IF Len(payload) < responsePayloadMin THEN Fail("payload_too_short")
     ELSE IF frameType # solarmanFrameType THEN Fail("frame_type")
     ELSE IF status # 1 THEN Fail("status")
     ELSE IF Len(modbusFrame) = 0 THEN Fail("empty_frame")
     ELSE [done |-> TRUE, err |-> "none", frame |-> modbusFrame]

(* ---- inputs of the harness ---- *)
\* RTU frames handed to the builder (the first is the frame of
\* TestSolarmanV5PacketEncoding)
Frames == { <<1, 3, 0, 100, 0, 10, 197, 205>>, <<1, 3>> }
Times == {0, 1730000000}
StartSerials == {1, 65534, 65535}

\* What a logger puts on the wire: a response envelope around payload.
PeerEnvelope(start, seq, payload) ==
  LET body == LE16(Len(payload)) \o LE16(5392) \o LE16(seq)
                \o LE32(loggerSerial) \o payload
  IN <<start>> \o body \o <<SumBytes(body) % 256, 21>>

\* frame type 0x02, status 0x01, three 32-bit times, then the RTU frame
\* 01 83 02 C0 F1
PeerPayload == <<2, 1>> \o Zeros(12) \o <<1, 131, 2, 192, 241>>

\* An answer to request 0x0102 (sequence bytes 02 01) whose RTU frame is
\* 53 15 00 00 00 00.
EchoPayload == <<2, 1>> \o Zeros(12) \o <<83, 21, 0, 0, 0, 0>>

PeerEnvelopes ==
  { PeerEnvelope(165, 1, PeerPayload),
    PeerEnvelope(165, 2, <<2, 1>>),
    PeerEnvelope(164, 1, PeerPayload),
    PeerEnvelope(165, 258, EchoPayload) }

WellFormed(e) == e \in {PeerEnvelope(165, 1, PeerPayload),
                        PeerEnvelope(165, 2, <<2, 1>>),
                        PeerEnvelope(165, 258, EchoPayload)}

\* The longest payload-and-trailer a peer envelope of the model carries.
MaxTail == Len(EchoPayload) + trailerSize

\* Connect() by the harness: Lock, the conn check, the dial, Unlock.
HConnect ==
  /\ \E dialed \in BOOLEAN :
       IF conn = NIL /\ dialed /\ nconn < MaxConns
         THEN conn' = nconn + 1 /\ nconn' = nconn + 1
         ELSE UNCHANGED <<conn, nconn>>
  /\ UNCHANGED <<serial, mutex, threadVars, harnessVars>>

\* Close() by the harness; what the peer had sent is gone with the socket.
HClose ==
  /\ conn' = NIL
  /\ stream' = <<>>
  /\ UNCHANGED <<serial, mutex, nconn, threadVars, apiVars, handed, lastpkt,
                 nbuilt, nread, s0, parsed, codec>>

\* buildRequestPacket(frame) by the harness.
HBuild ==
  /\ nbuilt < MaxBuilds
  /\ \E f \in Frames, now \in Times :
       lastpkt' = buildRequestPacket(serial, f, now)
  /\ serial' = IncSerial(serial)
  /\ nbuilt' = nbuilt + 1
  /\ UNCHANGED <<conn, mutex, nconn, threadVars, apiVars, stream, handed,
                 nread, s0, parsed, codec>>

\* The logger answers on the open connection.
HPeerSend ==
  /\ conn # NIL
  /\ stream = <<>>
  /\ nread < MaxReads
  /\ \E e \in PeerEnvelopes : stream' = e
  /\ UNCHANGED <<sessionVars, threadVars, apiVars, handed, lastpkt, nbuilt, nread, s0,
                 parsed, codec>>

\* readResponse() by the harness, on an open socket with its deadline set.
HRead ==
  /\ conn # NIL
  /\ nread < MaxReads
  /\ \E n1 \in 1..headerSize, n2 \in 1..MaxTail :
       /\ handed' = readResponse(stream, n1, n2)
       /\ stream' = Drop(stream, handed'.consumed)
  /\ nread' = nread + 1
  /\ UNCHANGED <<sessionVars, threadVars, apiVars, lastpkt, nbuilt, s0, parsed, codec>>

\* parseResponse(response) by the harness, on the response readResponse
\* returned.
HParse ==
  /\ handed.done
  /\ handed.err = "none"
  /\ ~parsed.done
  /\ parsed' = parseResponse(handed.resp)
  /\ UNCHANGED <<sessionVars, threadVars, apiVars, stream, handed, lastpkt, nbuilt,
                 nread, s0, codec>>

HarnessInit ==
  /\ conn = NIL
  /\ serial \in StartSerials
  /\ s0 = serial
  /\ mutex = Free
  /\ nconn = 0
  /\ pc = [t \in Threads |-> "idle"]
  /\ op = [t \in Threads |-> NoOp]
  /\ res = [t \in Threads |-> "none"]
  /\ stream = <<>>
  /\ handed = NotRead
  /\ lastpkt = <<>>
  /\ nbuilt = 0
  /\ nread = 0
  /\ parsed = NotParsed
  /\ codec = NoCodec
  /\ sess = [i \in Sessions |-> NoSession]
  /\ gor = [t \in Threads |-> Idle]
  /\ ev = NoEvent

HarnessNext == HConnect \/ HClose \/ HBuild \/ HPeerSend \/ HRead \/ HParse

HarnessSpec == HarnessInit /\ [][HarnessNext]_vars

(***************************************************************************)
(* The pure functions of the codec: parseResponse, crc16, fixDoubleCRC     *)
(* (solarmanv5.go) and parseModbusResponse (solarmanv5_client.go).         *)
(***************************************************************************)
\* a ^ b on naturals
RECURSIVE Xor(_, _)
Xor(a, b) ==
  IF a = 0 THEN b
  ELSE IF b = 0 THEN a
  ELSE (((a % 2) + (b % 2)) % 2) + 2 * Xor(a \div 2, b \div 2)

\* The inner loop of crc16: k times, shift right, XOR with 0xA001 when the
\* bit shifted out is 1.
RECURSIVE crcShift(_, _)
crcShift(crc, k) ==
  IF k = 0 THEN crc
  ELSE crcShift(IF crc % 2 # 0 THEN Xor(crc \div 2, 40961) ELSE crc \div 2,
                k - 1)

\* The outer loop of crc16 over data[lo..hi] from register value crc (a
\* uint16), with k shifts a byte: the bytes are taken in order, the register
\* after data[lo..mid] being computed before data[mid+1..hi] is taken.
RECURSIVE crcRange(_, _, _, _, _)
crcRange(crc, data, lo, hi, k) ==
  IF lo > hi THEN crc
  ELSE IF lo = hi THEN crcShift(Xor(crc, data[lo]), k)
  ELSE LET mid == (lo + hi) \div 2
           left == crcRange(crc, data, lo, mid, k)
       IN IF left < 0 THEN left ELSE crcRange(left, data, mid + 1, hi, k)

crcBytes(crc, data) == crcRange(crc, data, 1, Len(data), 8)

\* A crc16 whose inner loop runs 7 times.
crcBytes7(crc, data) == crcRange(crc, data, 1, Len(data), 7)

crc16SevenShifts(data) == crcBytes7(65535, data)

\* crc16: CRC-16/Modbus, register 0xFFFF at the start
crc16(data) == crcBytes(65535, data)

\* fixDoubleCRC
fixDoubleCRC(modbusFrame) ==
  IF Len(modbusFrame) < 4 THEN modbusFrame
  ELSE LET originalLen == Len(modbusFrame)
           frameWithoutLastCRC == Take(modbusFrame, originalLen - 2)
       IN IF Len(frameWithoutLastCRC) < 3 THEN modbusFrame
          ELSE LET expectedCRC == crc16(frameWithoutLastCRC)
                   actualCRC == Uint16LE(frameWithoutLastCRC,
                                         Len(frameWithoutLastCRC) - 1)
               IN IF expectedCRC = actualCRC THEN frameWithoutLastCRC
                  ELSE modbusFrame

\* expectedFunctionCode | 0x80 on a uint8
Or80(fc) == IF fc >= 128 THEN fc ELSE fc + 128

\* A response parser that compares the function code before it looks for an
\* exception.
parseModbusResponseFcFirst(response, expectedFunctionCode, slaveID) ==
  LET Fail(e) == [err |-> e, data |-> <<>>, fc |-> 0, code |-> 0]
  IN IF Len(response) < 3 THEN Fail("too_short")
     ELSE IF response[1] # slaveID THEN Fail("slave_id")
     ELSE IF response[2] # expectedFunctionCode THEN Fail("function_code")
     ELSE IF Len(response) >= 4
               /\ crc16(Take(response, Len(response) - 2))
                    # Uint16LE(response, Len(response) - 1)
       THEN Fail("crc")
     ELSE IF Len(response) > 4
       THEN [err |-> "none", data |-> SubSeq(response, 3, Len(response) - 2),
             fc |-> 0, code |-> 0]
     ELSE [err |-> "none", data |-> <<>>, fc |-> 0, code |-> 0]

\* parseModbusResponse: the data of an RTU response, or an error; an
\* exception carries the function code asked for and the exception code.
parseModbusResponse(response, expectedFunctionCode, slaveID) ==
  LET Fail(e) == [err |-> e, data |-> <<>>, fc |-> 0, code |-> 0]
  IN IF Len(response) < 3 THEN Fail("too_short")
     ELSE IF response[1] # slaveID THEN Fail("slave_id")
     ELSE IF response[2] = Or80(expectedFunctionCode)
       THEN IF Len(response) < 5 THEN Fail("error_too_short")
            ELSE [err |-> "modbus_exception", data |-> <<>>,
                  fc |-> expectedFunctionCode, code |-> response[3]]
     ELSE IF response[2] # expectedFunctionCode THEN Fail("function_code")
     ELSE IF Len(response) >= 4
               /\ crc16(Take(response, Len(response) - 2))
                    # Uint16LE(response, Len(response) - 1)
       THEN Fail("crc")
     ELSE IF Len(response) > 4
       THEN [err |-> "none", data |-> SubSeq(response, 3, Len(response) - 2),
             fc |-> 0, code |-> 0]
     ELSE [err |-> "none", data |-> <<>>, fc |-> 0, code |-> 0]

(***************************************************************************)
(* The session factory, solarmanv5.go.  An address is a sequence of        *)
(* tokens: a host name, ":", or a port number in digits.                   *)
(***************************************************************************)
solarmanPort == 8899
\* 5 * time.Second, in seconds
defaultTimeout == 5

\* The index of the last ":" of an address, 0 when it has none.
RECURSIVE LastColon(_, _)
LastColon(hostport, i) ==
  IF i = 0 THEN 0
  ELSE IF hostport[i] = ":" THEN i
  ELSE LastColon(hostport, i - 1)

\* net.SplitHostPort on an address without brackets: it fails when there is
\* no colon or more than one, and takes whatever follows the colon, nothing
\* included, as the port.
SplitHostPort(hostport) ==
  LET i == LastColon(hostport, Len(hostport))
  IN IF i = 0
       THEN [err |-> "missing port in address", host |-> <<>>, port |-> <<>>]
     ELSE IF LastColon(hostport, i - 1) # 0
       THEN [err |-> "too many colons in address", host |-> <<>>,
             port |-> <<>>]
     ELSE [err |-> "none", host |-> Take(hostport, i - 1),
           port |-> Drop(hostport, i)]

\* NewSolarmanV5Connection
NewSolarmanV5Connection(address, serialNumber) ==
  IF address = <<>>
    THEN [err |-> "address cannot be empty", session |-> NoSession]
    ELSE [err |-> "none",
          session |->
            [address |-> IF SplitHostPort(address).err # "none"
                           THEN address \o <<":", ToString(solarmanPort)>>
                           ELSE address,
             loggerSerial |-> serialNumber,
             serial |-> 1,
             timeout |-> defaultTimeout,
             slaveID |-> 1,
             conn |-> NIL,
             mutex |-> Free]]

(***************************************************************************)
(* Request frames of the client, solarmanv5_client.go.                     *)
(***************************************************************************)
\* binary.BigEndian.PutUint16
BE16(v) == << (v \div 256) % 256, v % 256 >>

\* A request builder that writes address and quantity little-endian.
buildModbusRequestLittleEndian(slaveID, functionCode, address, quantity, data) ==
  LET body ==
        CASE functionCode \in {1, 2, 3, 4, 5, 6} ->
               LE16(address) \o LE16(quantity)
          [] functionCode \in {15, 16} ->
               LE16(address) \o LE16(quantity) \o <<Len(data) % 256>> \o data
          [] functionCode = 22 -> LE16(address) \o data
          [] functionCode = 23 -> LE16(address) \o LE16(quantity) \o data
          [] functionCode = 24 -> LE16(address)
          [] OTHER -> <<>>
      request == <<slaveID, functionCode>> \o body
  IN request \o LE16(crc16(request))

\* A request builder whose byte count keeps 7 bits.
buildModbusRequestShortCount(slaveID, functionCode, address, quantity, data) ==
  LET body ==
        CASE functionCode \in {1, 2, 3, 4, 5, 6} ->
               BE16(address) \o BE16(quantity)
          [] functionCode \in {15, 16} ->
               BE16(address) \o BE16(quantity) \o <<Len(data) % 128>> \o data
          [] functionCode = 22 -> BE16(address) \o data
          [] functionCode = 23 -> BE16(address) \o BE16(quantity) \o data
          [] functionCode = 24 -> BE16(address)
          [] OTHER -> <<>>
      request == <<slaveID, functionCode>> \o body
  IN request \o LE16(crc16(request))

\* buildModbusRequest: slave ID, function code, the fields of the function
\* code, and the CRC-16 of all of them, little-endian
buildModbusRequest(slaveID, functionCode, address, quantity, data) ==
  LET body ==
        CASE functionCode \in {1, 2, 3, 4, 5, 6} ->
               BE16(address) \o BE16(quantity)
          [] functionCode \in {15, 16} ->
               BE16(address) \o BE16(quantity) \o <<Len(data) % 256>> \o data
          [] functionCode = 22 -> BE16(address) \o data
          [] functionCode = 23 -> BE16(address) \o BE16(quantity) \o data
          [] functionCode = 24 -> BE16(address)
          [] OTHER -> <<>>
      request == <<slaveID, functionCode>> \o body
  IN request \o LE16(crc16(request))

\* MaskWriteRegister: the data it hands to buildModbusRequest, a 6-byte
\* buffer with the two masks in its first four bytes
MaskWriteRegisterData(andMask, orMask) ==
  LET data == Zeros(6)
  IN BE16(andMask) \o BE16(orMask) \o Drop(data, 4)

\* ReadWriteMultipleRegisters: the data it hands to buildModbusRequest
ReadWriteMultipleRegistersData(writeAddress, writeQuantity, value) ==
  BE16(writeAddress) \o BE16(writeQuantity) \o <<Len(value) % 256>> \o value

\* The request a client operation hands to SendModbusFrame.
ClientRequest(slaveID, c) ==
  CASE c.fc \in {1, 2, 3, 4, 5, 6} ->
         buildModbusRequest(slaveID, c.fc, c.addr, c.qty, <<>>)
    [] c.fc \in {15, 16} ->
         buildModbusRequest(slaveID, c.fc, c.addr, c.qty, c.value)
    [] c.fc = 22 ->
         buildModbusRequest(slaveID, 22, c.addr, 0,
                            MaskWriteRegisterData(c.andMask, c.orMask))
    [] c.fc = 23 ->
         buildModbusRequest(slaveID, 23, c.addr, c.qty,
                            ReadWriteMultipleRegistersData(c.waddr, c.wqty,
                                                           c.value))
    [] c.fc = 24 -> buildModbusRequest(slaveID, 24, c.addr, 0, <<>>)

(***************************************************************************)
(* The codec functions applied to inputs, one call at a time.              *)
(***************************************************************************)
\* b followed by its CRC-16, little-endian (binary.LittleEndian.PutUint16)
WithCRC(b) == b \o LE16(crc16(b))

\* RTU frames handed to the builder: lengths 0, 1, 2, 3, 4, 8 and 252
Long252 == [i \in 1..252 |-> (i * 7) % 256]
CodecFrames ==
  { <<>>, <<1>>, <<1, 3>>, <<1, 3, 0>>, <<1, 3, 0, 100>>,
    <<1, 3, 0, 100, 0, 10, 197, 205>>, Long252 }

\* Frames handed to fixDoubleCRC.
FixInputs ==
  { WithCRC(<<1, 3, 2, 18, 52>>) \o <<171, 205>>,
    WithCRC(<<1, 3, 2, 18, 52>>),
    WithCRC(<<1, 3, 2, 18, 52>>) \o <<0, 0>>,
    WithCRC(<<1, 131, 2>>) \o <<171, 205>>,
    WithCRC(<<1, 131, 2>>),
    WithCRC(<<1, 3, 2, 77, 29>>),
    WithCRC(<<1, 3, 2, 77, 29>>) \o <<171, 205>>,
    WithCRC(<<1, 3, 2, 77, 29, 42, 33>>),
    <<1, 3, 2, 77, 29, 42, 33, 171, 205>>,
    <<255, 255, 171, 205>>, <<1, 3, 2>>, <<1, 3>>, <<>> }

\* Byte sequences handed to crc16.
CrcBytes == {0, 1, 128, 255}
CrcInputs ==
  { <<>>, <<1, 3, 0, 100, 0, 10>>, <<1, 3, 2, 18, 52>>, <<1, 131, 2>> }
    \cup { <<a>> : a \in CrcBytes }
    \cup { <<a, b>> : a \in CrcBytes, b \in CrcBytes }
    \cup { <<a, b, c>> : a \in {1, 255}, b \in CrcBytes, c \in CrcBytes }

\* RTU responses handed to parseModbusResponse, and the function codes asked
\* for.
ModbusResponses ==
  { <<1, 131>>, <<1, 131, 2>>, <<1, 131, 2, 192>>, WithCRC(<<1, 131, 2>>),
    <<1, 131, 2, 0, 0>>, WithCRC(<<1, 131, 2>>) \o <<171, 205>>,
    WithCRC(<<1, 134, 4>>), <<1, 134, 4>>,
    WithCRC(<<1, 3, 2, 18, 52>>), <<1, 3, 2, 18, 52, 0, 0>>,
    <<1, 3, 2, 18>>, WithCRC(<<1, 3>>), <<1, 3, 2>>,
    WithCRC(<<1, 6, 0, 1, 18, 52>>), WithCRC(<<2, 131, 2>>) }
RequestedFCs == {3, 4, 6}
SlaveIDs == {1, 2}

\* Client operations with arguments inside their ranges.
Regs(n) == [i \in 1..(2 * n) |-> (i * 11) % 256]
RequestCalls ==
  { [NoCall EXCEPT !.fc = 1, !.addr = 0, !.qty = 1],
    [NoCall EXCEPT !.fc = 2, !.addr = 65535, !.qty = 2000],
    [NoCall EXCEPT !.fc = 3, !.addr = 100, !.qty = 10],
    [NoCall EXCEPT !.fc = 4, !.addr = 256, !.qty = 125],
    [NoCall EXCEPT !.fc = 5, !.addr = 1, !.qty = 65280],
    [NoCall EXCEPT !.fc = 6, !.addr = 258, !.qty = 4660],
    [NoCall EXCEPT !.fc = 15, !.addr = 19, !.qty = 9, !.value = <<205, 1>>],
    [NoCall EXCEPT !.fc = 15, !.addr = 0, !.qty = 1968, !.value = Regs(123)],
    [NoCall EXCEPT !.fc = 16, !.addr = 1, !.qty = 2, !.value = Regs(2)],
    [NoCall EXCEPT !.fc = 16, !.addr = 513, !.qty = 123,
                   !.value = Regs(123)],
    [NoCall EXCEPT !.fc = 22, !.addr = 4, !.andMask = 242, !.orMask = 37],
    [NoCall EXCEPT !.fc = 22, !.addr = 4660, !.andMask = 65280,
                   !.orMask = 4097],
    [NoCall EXCEPT !.fc = 23, !.addr = 3, !.qty = 6, !.waddr = 14,
                   !.wqty = 3, !.value = Regs(3)],
    [NoCall EXCEPT !.fc = 23, !.addr = 772, !.qty = 125, !.waddr = 1286,
                   !.wqty = 121, !.value = Regs(121)],
    [NoCall EXCEPT !.fc = 24, !.addr = 1246] }

\* A built request turned into a response: control code 0x1510 at offsets
\* 3..4 and 0x01 at payload offset 1.
AsResponse(packet) == [packet EXCEPT ![4] = 16, ![5] = 21, ![13] = 1]

sessionIdle ==
  UNCHANGED <<sessionVars, threadVars, apiVars, stream, handed, lastpkt, nbuilt,
              nread, s0, parsed>>

\* buildRequestPacket on a session whose sequence is ser; val is the
\* sequence it leaves.
CBuild ==
  /\ \E ser \in StartSerials, f \in CodecFrames, now \in Times :
       codec' = [NoCodec EXCEPT !.op = "build", !.in = f, !.ser = ser,
                                !.now = now,
                                !.out = buildRequestPacket(ser, f, now),
                                !.val = IncSerial(ser)]
  /\ sessionIdle

\* parseResponse on the packet just built, turned into a response.
CParseBuilt ==
  /\ codec.op = "build"
  /\ LET r == parseResponse(AsResponse(codec.out))
     IN codec' = [codec EXCEPT !.op = "roundtrip", !.prev = codec.out,
                               !.out = r.frame, !.err = r.err]
  /\ sessionIdle

\* fixDoubleCRC on a frame.
CFix ==
  /\ \E x \in FixInputs :
       codec' = [NoCodec EXCEPT !.op = "fix", !.in = x,
                                !.out = fixDoubleCRC(x)]
  /\ sessionIdle

\* fixDoubleCRC on what fixDoubleCRC has just returned.
CFixAgain ==
  /\ codec.op = "fix"
  /\ codec' = [codec EXCEPT !.op = "fix2", !.prev = codec.out,
                            !.out = fixDoubleCRC(codec.out)]
  /\ sessionIdle

\* crc16 on a byte sequence.
CCrc ==
  /\ \E b \in CrcInputs :
       codec' = [NoCodec EXCEPT !.op = "crc", !.in = b, !.val = crc16(b)]
  /\ sessionIdle

\* crc16 on the sequence just summed with its CRC appended little-endian.
CCrcAppended ==
  /\ codec.op = "crc"
  /\ LET b == codec.in \o LE16(codec.val)
     IN codec' = [codec EXCEPT !.op = "crc2", !.prev = codec.in, !.in = b,
                               !.val = crc16(b)]
  /\ sessionIdle

\* parseModbusResponse of a client whose slave ID is sl.
CParseModbus ==
  /\ \E resp \in ModbusResponses, fc \in RequestedFCs, sl \in SlaveIDs :
       LET r == parseModbusResponse(resp, fc, sl)
       IN codec' = [NoCodec EXCEPT !.op = "modbus", !.in = resp, !.fc = fc,
                                   !.slave = sl, !.out = r.data,
                                   !.err = r.err, !.efc = r.fc,
                                   !.val = r.code]
  /\ sessionIdle

\* Addresses handed to the factory: "", "h", "h:502", "h:8899", "h:".
AddressInputs ==
  { <<>>, <<"h">>, <<"h", ":", "502">>, <<"h", ":", "8899">>, <<"h", ":">> }
LoggerSerials == {0, loggerSerial}

\* NewSolarmanV5Connection on an address and a logger serial.
CNew ==
  /\ \E a \in AddressInputs, ls \in LoggerSerials :
       LET r == NewSolarmanV5Connection(a, ls)
       IN codec' = [NoCodec EXCEPT !.op = "new", !.addr = a, !.val = ls,
                                   !.err = r.err, !.made = r.session]
  /\ sessionIdle

\* Byte sequences handed to calculateChecksum: the empty one, the two of the
\* test, single bytes, and runs of one byte up to 300 long.
ChecksumInputs ==
  { <<>>, <<255, 255, 255>>, <<1, 2, 3, 4, 5>>, <<0>>, <<255>>, <<255, 1>>,
    <<128, 128>>, <<200, 100, 50, 25, 12, 6, 3, 1>>,
    [i \in 1..256 |-> 1], [i \in 1..257 |-> 255], [i \in 1..300 |-> 255] }

\* calculateChecksum on a byte sequence.
CChecksum ==
  /\ \E b \in ChecksumInputs :
       codec' = [NoCodec EXCEPT !.op = "checksum", !.in = b,
                                !.val = calculateChecksum(b)]
  /\ sessionIdle

\* The requests the clients with the slave IDs build for the operations.
ClientRequests ==
  { [call |-> c, slave |-> sl, request |-> ClientRequest(sl, c)] :
      c \in RequestCalls, sl \in SlaveIDs }

\* The request a client builds for an operation.
CRequest ==
  /\ \E r \in ClientRequests :
       codec' = [NoCodec EXCEPT !.op = "request", !.call = r.call,
                                !.fc = r.call.fc, !.slave = r.slave,
                                !.out = r.request]
  /\ sessionIdle

\* The write-multiple operations whose arguments pass the checks, with the
\* request each builds and the packet buildRequestPacket makes of it on a
\* session at sequence 1.
WriteMultipleEnvelopes ==
  { [call |-> r.call, slave |-> r.slave, request |-> r.request,
     packet |-> buildRequestPacket(1, r.request, 1730000000)] :
      r \in { q \in ClientRequests :
                /\ q.call.fc \in {15, 16, 23}
                /\ ArgsOK(Call(q.call.fc, q.call.qty, q.call.wqty,
                               Len(q.call.value))) } }

\* A write-multiple operation up to the packet SendModbusFrame would write.
CEnvelope ==
  /\ \E e \in WriteMultipleEnvelopes :
       codec' = [NoCodec EXCEPT !.op = "envelope", !.call = e.call,
                                !.fc = e.call.fc, !.slave = e.slave,
                                !.in = e.request, !.out = e.packet,
                                !.ser = 1, !.now = 1730000000]
  /\ sessionIdle

CodecInit == Init

CodecNext ==
  \/ CBuild
  \/ CParseBuilt
  \/ CFix
  \/ CFixAgain
  \/ CCrc
  \/ CCrcAppended
  \/ CParseModbus
  \/ CRequest
  \/ CChecksum
  \/ CNew
  \/ CEnvelope

CodecSpec == CodecInit /\ [][CodecNext]_vars

(***************************************************************************)
(* Several sessions: the factory's session, its clones, the setters, and   *)
(* goroutines calling exchange, Connect and Close on any of them.  A       *)
(* socket is named after the session whose Connect dialed it.              *)
(***************************************************************************)
Timeouts == {defaultTimeout, 10}

\* A Clone that starts the copy at sequence 1.
CloneResetsSerial(c, slaveID) ==
  [address |-> c.address,
   conn |-> NIL,
   loggerSerial |-> c.loggerSerial,
   serial |-> 1,
   timeout |-> c.timeout,
   slaveID |-> slaveID,
   mutex |-> Free]

\* A Clone that copies the struct and sets the slave ID.
CloneCopiesStruct(c, slaveID) == [c EXCEPT !.slaveID = slaveID]

\* Clone: the struct literal it returns; the fields it leaves out are zero
\* (an unlocked mutex)
Clone(c, slaveID) ==
  [address |-> c.address,
   conn |-> NIL,
   loggerSerial |-> c.loggerSerial,
   serial |-> c.serial,
   timeout |-> c.timeout,
   slaveID |-> slaveID,
   mutex |-> Free]

\* Timeout: the session after, and the value returned
Timeout(c, timeout) ==
  [session |-> [c EXCEPT !.timeout = timeout], oldTimeout |-> c.timeout]

\* Slave
Slave(c, deviceID) == [c EXCEPT !.slaveID = deviceID]

Live(i) == sess[i] # NoSession

coreVars == <<sessionVars, threadVars, stream, handed, lastpkt, nbuilt,
              nread, s0, parsed, codec>>

\* A client operation with arguments in range on session i: the call of
\* SendModbusFrame.
CallExchangeOn(t, i) ==
  /\ gor[t].pc = "idle"
  /\ Live(i)
  /\ gor' = [gor EXCEPT ![t] = [pc |-> "sm_lock", sid |-> i]]
  /\ UNCHANGED <<sess, ev, coreVars>>

CallConnectOn(t, i) ==
  /\ gor[t].pc = "idle"
  /\ Live(i)
  /\ gor' = [gor EXCEPT ![t] = [pc |-> "cn_lock", sid |-> i]]
  /\ UNCHANGED <<sess, ev, coreVars>>

CallCloseOn(t, i) ==
  /\ gor[t].pc = "idle"
  /\ Live(i)
  /\ gor' = [gor EXCEPT ![t] = [pc |-> "cl_lock", sid |-> i]]
  /\ UNCHANGED <<sess, ev, coreVars>>

\* A Lock that does not wait for the session's mutex to be unlocked.
LockOwnNoWait(t) ==
  /\ gor[t].pc \in LockPoints
  /\ sess' = [sess EXCEPT ![gor[t].sid].mutex = t]
  /\ gor' = [gor EXCEPT ![t].pc = AfterLock(gor[t].pc)]
  /\ UNCHANGED <<ev, coreVars>>

\* c.mutex.Lock() on the session of the call
LockOwn(t) ==
  /\ gor[t].pc \in LockPoints
  /\ sess[gor[t].sid].mutex = Free
  /\ sess' = [sess EXCEPT ![gor[t].sid].mutex = t]
  /\ gor' = [gor EXCEPT ![t].pc = AfterLock(gor[t].pc)]
  /\ UNCHANGED <<ev, coreVars>>

\* Connect after its Lock: the conn check, net.DialTimeout, the deferred
\* Unlock.
ConnectBodyOn(t) ==
  /\ gor[t].pc \in {"cn_body", "sm_connect_body"}
  /\ LET i == gor[t].sid
     IN \E dialed \in BOOLEAN :
          LET ok == sess[i].conn # NIL \/ dialed
          IN /\ sess' = [sess EXCEPT ![i].mutex = Free,
                                       ![i].conn = IF sess[i].conn = NIL /\ ok
                                                     THEN i
                                                     ELSE sess[i].conn]
             /\ gor' = [gor EXCEPT ![t].pc =
                          IF gor[t].pc = "sm_connect_body" /\ ok
                            THEN "sm_deadline" ELSE "returned"]
  /\ UNCHANGED <<ev, coreVars>>

\* Close after its Lock, and the deferred Unlock.
CloseBodyOn(t) ==
  /\ gor[t].pc = "cl_body"
  /\ sess' = [sess EXCEPT ![gor[t].sid].mutex = Free,
                          ![gor[t].sid].conn = NIL]
  /\ gor' = [gor EXCEPT ![t].pc = "returned"]
  /\ UNCHANGED <<ev, coreVars>>

\* The caller has its result and is free to call again.
ReturnFrom(t) ==
  /\ gor[t].pc = "returned"
  /\ gor' = [gor EXCEPT ![t] = Idle]
  /\ UNCHANGED <<sess, ev, coreVars>>

\* Slave(deviceID) on session i, by any caller: it takes no lock.
SetSlave(i) ==
  /\ Live(i)
  /\ \E deviceID \in SlaveIDs :
       /\ sess' = [sess EXCEPT ![i] = Slave(sess[i], deviceID)]
       /\ ev' = [op |-> "slave", sid |-> i, src |-> 0, arg |-> deviceID]
  /\ UNCHANGED <<gor, coreVars>>

\* Timeout(timeout) on session i, by any caller: it takes no lock.
SetTimeout(i) ==
  /\ Live(i)
  /\ \E timeout \in Timeouts :
       /\ sess' = [sess EXCEPT ![i] = Timeout(sess[i], timeout).session]
       /\ ev' = [op |-> "timeout", sid |-> i, src |-> 0, arg |-> timeout]
  /\ UNCHANGED <<gor, coreVars>>

\* SetDeadline() on session i, by any caller: it takes no lock, looks at the
\* socket field and sets the socket's deadline.
CallSetDeadline(i) ==
  /\ Live(i)
  /\ ev' = [op |-> "deadline", sid |-> i, src |-> 0,
            arg |-> IF sess[i].conn = NIL THEN 0 ELSE 1]
  /\ UNCHANGED <<sess, gor, coreVars>>

\* Clone(slaveID) on session i, by any caller: it takes no lock; the clone
\* goes to the first empty slot.
CloneSession(i) ==
  /\ Live(i)
  /\ \E j \in Sessions, slaveID \in SlaveIDs :
       /\ ~Live(j)
       /\ \A k \in 1..(j - 1) : Live(k)
       /\ sess' = [sess EXCEPT ![j] = Clone(sess[i], slaveID)]
       /\ ev' = [op |-> "clone", sid |-> j, src |-> i, arg |-> slaveID]
  /\ UNCHANGED <<gor, coreVars>>

\* Session 1 as the factory made it, taken at any of the start sequences
\* (in-package callers of buildRequestPacket have advanced it).
SessionsInit ==
  /\ conn = NIL
  /\ serial = 1
  /\ mutex = Free
  /\ nconn = 0
  /\ pc = [t \in Threads |-> "idle"]
  /\ op = [t \in Threads |-> NoOp]
  /\ res = [t \in Threads |-> "none"]
  /\ stream = <<>>
  /\ handed = NotRead
  /\ lastpkt = <<>>
  /\ nbuilt = 0
  /\ nread = 0
  /\ s0 = 1
  /\ parsed = NotParsed
  /\ codec = NoCodec
  /\ \E ser \in StartSerials :
       sess = [i \in Sessions |->
                 IF i = 1
                   THEN [NewSolarmanV5Connection(<<"h">>, loggerSerial).session
                           EXCEPT !.serial = ser]
                   ELSE NoSession]
  /\ gor = [t \in Threads |-> Idle]
  /\ ev = NoEvent

SessionsNext ==
  \/ \E t \in Threads, i \in Sessions : CallExchangeOn(t, i)
  \/ \E t \in Threads, i \in Sessions : CallConnectOn(t, i)
  \/ \E t \in Threads, i \in Sessions : CallCloseOn(t, i)
  \/ \E t \in Threads : LockOwn(t)
  \/ \E t \in Threads : ConnectBodyOn(t)
  \/ \E t \in Threads : CloseBodyOn(t)
  \/ \E t \in Threads : ReturnFrom(t)
  \/ \E i \in Sessions : SetSlave(i)
  \/ \E i \in Sessions : SetTimeout(i)
  \/ \E i \in Sessions : CallSetDeadline(i)
  \/ \E i \in Sessions : CloneSession(i)

SessionsSpec == SessionsInit /\ [][SessionsNext]_vars

\* A goroutine inside a call on a session: the steps the Go scheduler takes
\* for it.  It runs every goroutine that is not blocked.
RunOn(t) == LockOwn(t) \/ ConnectBodyOn(t) \/ CloseBodyOn(t)

FairSessionsSpec == SessionsSpec /\ \A t \in Threads : WF_vars(RunOn(t))

(***************************************************************************)
(* Properties of the session under concurrent callers (Spec, FairSpec).    *)
(***************************************************************************)
\* Goroutine t has called SendModbusFrame and it has not returned.
ExchangeCalled(t) ==
  pc[t] \in {"sm_lock", "sm_connect_lock", "sm_connect_body", "sm_deadline"}

\* Goroutine t is past SendModbusFrame's Lock (line 171) and has not returned.
InExchange(t) ==
  pc[t] \in {"sm_connect_lock", "sm_connect_body", "sm_deadline"}

\* Goroutine t is between Lock and Unlock of a Connect or Close of its own.
InConnectOrClose(t) == pc[t] \in {"cn_body", "cl_body"}

\* C1: an exchange never blocks on the session's own mutex: no goroutine
\* waits in Lock for a mutex that its own earlier Lock holds (it would wait
\* forever, and the exchange would never return).
C1_ExchangeNeverWaitsForOwnMutex ==
  \A t \in Threads : ~(pc[t] \in LockPoints /\ mutex = t)

\* C2: exchanges on one session do not interleave: while one caller is
\* inside SendModbusFrame (past its Lock, not yet returned) no other caller
\* is inside SendModbusFrame, Connect or Close, so nobody else writes to,
\* reads from, opens or closes the socket before the first is done.
C2_ExchangesDoNotInterleave ==
  \A a, b \in Threads :
    (a # b /\ InExchange(a)) =>
      (mutex = a /\ ~InExchange(b) /\ ~InConnectOrClose(b))

\* C2 witness: A is inside its exchange and B, which called an exchange
\* after it, is held at SendModbusFrame's Lock.
C2_Witness ==
  \E a, b \in Threads :
    a # b /\ InExchange(a) /\ pc[b] = "sm_lock" /\ op[b] \in ClientCalls

\* C5: an exchange begun on a connected session returns, and when what it
\* returns is a transport error (write, read, deadline) the socket is closed
\* and unset at that moment, so the next exchange has to reconnect.
C5_TransportErrorReturnsSocketUnset ==
  \A t \in Threads :
    (ExchangeCalled(t) /\ conn # NIL)
      ~> (pc[t] = "returned" /\ (res[t] = "transport_error" => conn = NIL))

\* C6: an exchange returns, and when what it returns is an envelope parse
\* error (too short, frame type, status, empty frame) the socket has been
\* closed before, so it is unset at that moment.
C6_ParseErrorReturnsSocketUnset ==
  \A t \in Threads :
    ExchangeCalled(t)
      ~> (pc[t] = "returned" /\ (res[t] = "envelope_error" => conn = NIL))

\* C7: an exchange begun with no socket returns, and when what it returns
\* is the failure of its connect attempt the socket is still unset.
C7_ConnectFailureReturns ==
  \A t \in Threads :
    (ExchangeCalled(t) /\ conn = NIL)
      ~> (pc[t] = "returned" /\ (res[t] = "connect_error" => conn = NIL))

\* The errors that are about the request or the slave's answer, not the
\* transport.
SemanticErrors == {"invalid_argument", "modbus_exception"}

\* C8: the step in which an operation ends in a semantic error leaves the
\* socket as it is: a connected socket stays connected, to the same
\* connection.
C8_SemanticErrorKeepsSocket ==
  [][\A t \in Threads :
       (pc[t] # "returned" /\ pc'[t] = "returned"
          /\ res'[t] \in SemanticErrors) => conn' = conn]_vars

\* C8 witness: an operation has returned an argument error on a session whose
\* socket is connected.
C8_Witness ==
  \E t \in Threads :
    pc[t] = "returned" /\ res[t] = "invalid_argument" /\ conn # NIL

\* The argument ranges of the function-code table.
CeilDiv8(q) == (q \div 8) + (IF q % 8 = 0 THEN 0 ELSE 1)

InDocumentedRange(o) ==
  CASE o.fc \in {1, 2} -> o.qty \in 1..2000
    [] o.fc \in {3, 4} -> o.qty \in 1..125
    [] o.fc = 5 -> o.qty \in {0, 65280}
    [] o.fc = 15 -> o.qty \in 1..1968 /\ o.dlen = CeilDiv8(o.qty)
    [] o.fc = 16 -> o.qty \in 1..123 /\ o.dlen = 2 * o.qty
    [] o.fc = 23 -> o.qty \in 1..125 /\ o.wqty \in 1..121
                      /\ o.dlen = 2 * o.wqty
    [] OTHER -> TRUE

\* C9: an operation called with an argument outside its documented range
\* returns an argument error in the same step, without locking, connecting
\* or building: socket, sequence, mutex and the number of connections
\* opened are unchanged.
C9_OutOfRangeIsNeverSent ==
  [][\A t \in Threads :
       (pc[t] = "idle" /\ op'[t] \in ClientCalls
          /\ ~InDocumentedRange(op'[t]))
         => (/\ pc'[t] = "returned"
             /\ res'[t] = "invalid_argument"
             /\ UNCHANGED <<conn, serial, mutex, nconn>>)]_vars

\* C9 witness: read_holding_registers with quantity 126 on a connected
\* session, and a write-multiple-registers call with a data length that is
\* not 2*quantity, have both returned an argument error.
C9_Witness ==
  \E a, b \in Threads :
    /\ pc[a] = "returned" /\ res[a] = "invalid_argument"
    /\ op[a] = Call(3, 126, 0, 0)
    /\ pc[b] = "returned" /\ res[b] = "invalid_argument"
    /\ op[b] = Call(16, 1, 0, 1)
    /\ conn # NIL

(***************************************************************************)
(* Properties of the codec and the reader (HarnessSpec).                   *)
(***************************************************************************)
\* The sequence field of a packet: little-endian at offsets 5..6.
SeqField(p) == Uint16LE(p, 6)

\* C3: after k calls of the builder on a session that started at sequence
\* s0, the session's sequence is (s0 + k) mod 2^16 and the sequence field of
\* the k-th packet is (s0 + k - 1) mod 2^16.
C3_SequenceAdvancesByOne ==
  /\ serial = (s0 + nbuilt) % 65536
  /\ nbuilt >= 1 => SeqField(lastpkt) = (s0 + nbuilt - 1) % 65536

\* C3 witness: starting at 65535, the second packet carries sequence 0.
C3_Witness ==
  s0 = 65535 /\ nbuilt = 2 /\ SeqField(lastpkt) = 0 /\ serial = 1

\* C4: a step changes the sequence exactly when it is a call of the
\* builder, and then by one (wrapping): connecting (or failing to), closing
\* and reading (or failing to) leave it alone.
C4_OneIncrementPerBuild ==
  [][/\ nbuilt' = nbuilt + 1 => serial' = (serial + 1) % 65536
     /\ nbuilt' = nbuilt => serial' = serial]_vars

\* C4 witness: a packet was built and the read that followed failed; the
\* sequence is one past the packet's.
C4_Witness ==
  /\ nbuilt >= 1
  /\ handed.done /\ handed.err # "none"
  /\ serial = (SeqField(lastpkt) + 1) % 65536

\* C10: when the socket holds a well-formed envelope, however it arrives,
\* readResponse takes exactly 11 + payload_length + 2 bytes off the stream
\* and returns that envelope byte for byte.
C10_ReaderReturnsTheEnvelopeSent ==
  (handed.done /\ WellFormed(handed.avail)) =>
    /\ handed.err = "none"
    /\ handed.resp = handed.avail
    /\ handed.consumed = headerSize + Uint16LE(handed.avail, 2) + trailerSize

\* C15: a frame comes out of reading and parsing only if the envelope
\* received has start byte 0xA5, end byte 0x15, a checksum byte equal to the
\* sum modulo 256 of the bytes between start byte and checksum, frame type
\* 0x02 and status 0x01, and the frame is then that envelope's payload from
\* payload offset 14 to its end; any other envelope is rejected.
C15_OnlyValidEnvelopesYieldTheirFrame ==
  (parsed.done /\ parsed.err = "none") =>
    LET e == handed.avail
        payload == SubSeq(e, 12, Len(e) - 2)
    IN /\ e[1] = 165
       /\ e[Len(e)] = 21
       /\ e[Len(e) - 1] = SumBytes(SubSeq(e, 2, Len(e) - 2)) % 256
       /\ payload[1] = 2
       /\ payload[2] = 1
       /\ parsed.frame = SubSeq(payload, 15, Len(payload))

(***************************************************************************)
(* Properties of the codec functions (CodecSpec).                          *)
(***************************************************************************)
\* f ends in the little-endian CRC-16 of the bytes before it.
HasValidCRC(f) ==
  Len(f) >= 2 /\ crc16(Take(f, Len(f) - 2)) = Uint16LE(f, Len(f) - 1)

\* C11: envelope round trip: for an RTU frame r of 1..252 bytes, parsing the
\* packet the builder made for r, with control code 0x1510 and status 0x01
\* patched in, succeeds and returns r.
C11_EnvelopeRoundTrip ==
  (codec.op = "roundtrip" /\ Len(codec.in) \in 1..252) =>
    (codec.err = "none" /\ codec.out = codec.in)

\* C12: the packet built for a frame of n bytes has 11 + 14 + n + 2 bytes and
\* its length field (offsets 1..2, little-endian) is 14 + n.
C12_BuiltSizeAndLengthField ==
  codec.op = "build" =>
    /\ Len(codec.out) = 11 + 14 + Len(codec.in) + 2
    /\ Uint16LE(codec.out, 2) = 14 + Len(codec.in)

\* C13: the layout of a built packet: 0xA5, the length field 15 + n
\* little-endian, control code 0x4510 little-endian, the session's sequence
\* little-endian, the logger serial little-endian, frame type 0x02, six zero
\* bytes at offsets 12..17, the frame from offset 22 up to the trailer, and
\* 0x15 last.
C13_BuiltPacketLayout ==
  codec.op = "build" =>
    LET pkt == codec.out
        n == Len(codec.in)
    IN /\ pkt[1] = 165
       /\ pkt[2] + 256 * pkt[3] = 15 + n
       /\ (n = 8 => (pkt[2] = 23 /\ pkt[3] = 0))
       /\ pkt[4] = 16 /\ pkt[5] = 69
       /\ pkt[6] + 256 * pkt[7] = codec.ser
       /\ SubSeq(pkt, 8, 11) = <<120, 86, 52, 18>>
       /\ pkt[12] = 2
       /\ SubSeq(pkt, 13, 18) = <<0, 0, 0, 0, 0, 0>>
       /\ SubSeq(pkt, 23, Len(pkt) - 2) = codec.in
       /\ pkt[Len(pkt)] = 21

\* C13 witness: the packet built at sequence 1 and time 0 for the frame
\* 01 03 00 64 00 0A C5 CD begins A5 17 00 10 45 01 00 78 56 34 12 02 and ten
\* zero bytes.
C13_Witness ==
  /\ codec.op = "build"
  /\ codec.in = <<1, 3, 0, 100, 0, 10, 197, 205>>
  /\ Take(codec.out, 22) =
       <<165, 23, 0, 16, 69, 1, 0, 120, 86, 52, 18, 2>> \o Zeros(10)

\* C14: in a packet built for a frame of n bytes the checksum is at offset
\* 22 + n, the end sentinel at 23 + n is the last byte, and the checksum is
\* the sum modulo 256 of the bytes at offsets 1 .. 21 + n.
C14_ChecksumSlotAndValue ==
  codec.op = "build" =>
    LET pkt == codec.out
        n == Len(codec.in)
    IN /\ Len(pkt) = 24 + n
       /\ pkt[24 + n] = 21
       /\ pkt[23 + n] = SumBytes(SubSeq(pkt, 2, 22 + n)) % 256

\* C14 witness: a packet whose summed bytes add up to more than 255, so that
\* the checksum has wrapped.
C14_Witness ==
  /\ codec.op = "build"
  /\ Len(codec.in) = 252
  /\ SumBytes(SubSeq(codec.out, 2, 22 + 252)) > 255

\* C16: double-CRC fix: a frame that is a frame with a valid CRC-16 followed
\* by two more bytes comes back without those two bytes.
C16_DoubleCRCStripped ==
  (codec.op = "fix" /\ Len(codec.in) >= 4
     /\ HasValidCRC(Take(codec.in, Len(codec.in) - 2)))
    => codec.out = Take(codec.in, Len(codec.in) - 2)

\* C17: a frame whose last two bytes are the valid CRC-16 of the bytes before
\* them comes back unchanged.
C17_SingleCRCUnchanged ==
  (codec.op = "fix" /\ HasValidCRC(codec.in)) => codec.out = codec.in

\* C18: the compensator is idempotent: applied to its own result it returns
\* that result.
C18_CompensatorIdempotent ==
  codec.op = "fix2" => codec.out = codec.prev

\* C19: CRC-16 law: the CRC-16 of b followed by the little-endian CRC-16 of
\* b is 0.
C19_CrcOfFrameWithCrcIsZero ==
  codec.op = "crc2" => codec.val = 0

\* C19 witness: b = 01 03 02 12 34, whose CRC-16 is 0x33B5, has been summed
\* again with B5 33 appended.
C19_Witness ==
  /\ codec.op = "crc2"
  /\ codec.prev = <<1, 3, 2, 18, 52>>
  /\ codec.in = <<1, 3, 2, 18, 52, 181, 51>>

\* C20 as stated: a response of 3 or more bytes from the session's slave
\* whose second byte is fc | 0x80 surfaces as a Modbus exception with fc and
\* the code in response[2], and no data.
C20_ExceptionFromThreeBytes ==
  (codec.op = "modbus" /\ Len(codec.in) >= 3 /\ codec.in[1] = codec.slave
     /\ codec.in[2] = codec.fc + 128)
    => (/\ codec.err = "modbus_exception"
        /\ codec.efc = codec.fc
        /\ codec.val = codec.in[3]
        /\ codec.out = <<>>)

\* C20 amended: the same for a response of 5 or more bytes; an exception
\* response of 3 or 4 bytes is an error without exception code, and returns
\* no data either.
C20_ExceptionFromFiveBytes ==
  (codec.op = "modbus" /\ Len(codec.in) >= 3 /\ codec.in[1] = codec.slave
     /\ codec.in[2] = codec.fc + 128)
    => /\ codec.out = <<>>
       /\ codec.err # "none"
       /\ Len(codec.in) >= 5 =>
            (/\ codec.err = "modbus_exception"
             /\ codec.efc = codec.fc
             /\ codec.val = codec.in[3])

\* C20 witness: 01 83 02 C0 F1 asked for with function code 0x03 is the
\* exception fc = 0x03, code = 0x02.
C20_Witness ==
  /\ codec.op = "modbus"
  /\ codec.in = <<1, 131, 2, 192, 241>>
  /\ codec.fc = 3 /\ codec.slave = 1
  /\ codec.err = "modbus_exception" /\ codec.efc = 3 /\ codec.val = 2
  /\ codec.out = <<>>

\* C21: a response of 3 or more bytes with the session's slave ID and the
\* function code asked for is accepted only if the CRC-16 of all its bytes
\* but the last two equals the little-endian value of the last two, the data
\* returned is then response[2..len-2], and with another CRC the result is
\* the integrity error.
C21_DataOnlyFromVerifiedFrames ==
  (codec.op = "modbus" /\ Len(codec.in) >= 3 /\ codec.in[1] = codec.slave
     /\ codec.in[2] = codec.fc)
    => /\ codec.err = "none" =>
            (/\ HasValidCRC(codec.in)
             /\ codec.out = SubSeq(codec.in, 3, Len(codec.in) - 2))
       /\ ~HasValidCRC(codec.in) => codec.err = "crc"

\* C22: the Mask Write Register request is slave ID, 0x16, address, AND
\* mask, OR mask (each 16 bits, big-endian) and the little-endian CRC-16 of
\* those 8 bytes: 10 bytes, nothing else.
C22_MaskWriteRequestIsTenBytes ==
  (codec.op = "request" /\ codec.call.fc = 22) =>
    LET c == codec.call
        head == << codec.slave, 22,
                   c.addr \div 256, c.addr % 256,
                   c.andMask \div 256, c.andMask % 256,
                   c.orMask \div 256, c.orMask % 256 >>
    IN /\ Len(codec.out) = 10
       /\ codec.out = head \o << crc16(head) % 256, crc16(head) \div 256 >>

\* The request body of the function-code table, after slave ID and function
\* code.
TableBody(c) ==
  LET hi(v) == v \div 256
      lo(v) == v % 256
  IN CASE c.fc \in {1, 2, 3, 4, 5, 6} ->
            << hi(c.addr), lo(c.addr), hi(c.qty), lo(c.qty) >>
       [] c.fc \in {15, 16} ->
            << hi(c.addr), lo(c.addr), hi(c.qty), lo(c.qty), Len(c.value) >>
              \o c.value
       [] c.fc = 23 ->
            << hi(c.addr), lo(c.addr), hi(c.qty), lo(c.qty),
               hi(c.waddr), lo(c.waddr), hi(c.wqty), lo(c.wqty),
               Len(c.value) >> \o c.value
       [] c.fc = 24 -> << hi(c.addr), lo(c.addr) >>

\* C23: for function codes 0x01-0x06, 0x0F, 0x10, 0x17 and 0x18 the request
\* is slave ID, function code, the body of the function-code table with
\* 16-bit fields big-endian, and the little-endian CRC-16 of all that; the
\* request of FC 0x03 has 8 bytes.
C23_RequestFrameLayout ==
  (codec.op = "request" /\ codec.call.fc \in {1, 2, 3, 4, 5, 6, 15, 16, 23, 24})
    => LET head == << codec.slave, codec.call.fc >> \o TableBody(codec.call)
       IN /\ codec.out = head \o << crc16(head) % 256, crc16(head) \div 256 >>
          /\ codec.call.fc = 3 => Len(codec.out) = 8

\* C23 witness: read holding registers 100..109 of slave 1 is
\* 01 03 00 64 00 0A 84 12, and a read/write request of 242 data bytes has
\* been built.
C23_Witness ==
  /\ codec.op = "request"
  /\ codec.call.fc = 23 /\ Len(codec.call.value) = 242
  /\ codec.out[11] = 242
  /\ ClientRequest(1, [NoCall EXCEPT !.fc = 3, !.addr = 100, !.qty = 10])
       = <<1, 3, 0, 100, 0, 10, 132, 18>>

\* The arithmetic sum of a byte sequence, byte by byte.
RECURSIVE ArithSum(_)
ArithSum(b) == IF b = <<>> THEN 0 ELSE b[1] + ArithSum(Tail(b))

\* C29: the sum-8 checksum of a byte sequence is the arithmetic sum of its
\* bytes modulo 256: FF FF FF gives FD, 01 02 03 04 05 gives 0F, the empty
\* sequence gives 0, and a run of n bytes v gives n * v modulo 256.
C29_ChecksumIsSumModulo256 ==
  codec.op = "checksum" =>
    /\ Len(codec.in) <= 8 => codec.val = ArithSum(codec.in) % 256
    /\ (\A i \in 1..Len(codec.in) : codec.in[i] = codec.in[1])
         => codec.val = (Len(codec.in) * (IF codec.in = <<>> THEN 0
                                           ELSE codec.in[1])) % 256
    /\ codec.in = <<255, 255, 255>> => codec.val = 253
    /\ codec.in = <<1, 2, 3, 4, 5>> => codec.val = 15
    /\ codec.in = <<>> => codec.val = 0

\* C29 witness: the checksum of FF FF FF has been computed and wrapped.
C29_Witness ==
  /\ codec.op = "checksum"
  /\ codec.in = <<255, 255, 255>>
  /\ codec.val = 253

\* An address whose last token is not a port number.
HasNoPort(a) == a # <<>> /\ a[Len(a)] \notin {"502", "8899"}

\* C28: the factory rejects the empty address and creates no session; for
\* any other address the session has sequence 1, slave ID 1, timeout 5 s,
\* the logger serial given and no socket, and its address is the one given,
\* with ":8899" appended when the one given has no port.
C28_FactoryDefaults ==
  codec.op = "new" =>
    IF codec.addr = <<>>
      THEN codec.err # "none" /\ codec.made = NoSession
      ELSE /\ codec.err = "none"
           /\ codec.made.serial = 1
           /\ codec.made.slaveID = 1
           /\ codec.made.timeout = 5
           /\ codec.made.loggerSerial = codec.val
           /\ codec.made.conn = NIL
           /\ HasNoPort(codec.addr) =>
                codec.made.address = codec.addr \o <<":", "8899">>

(***************************************************************************)
(* Properties of several sessions (SessionsSpec, FairSessionsSpec).        *)
(***************************************************************************)
\* C24: the step of Clone(new_slave) on a source makes a session with the
\* source's address, logger serial and timeout, slave ID new_slave, the
\* sequence the source has at that moment and no socket, whether the source
\* has a socket or not, and leaves the source as it was.
C24_CloneCopiesAllButSocketAndSlave ==
  [][\A i, j \in Sessions :
       (ev' # ev /\ ev'.op = "clone" /\ ev'.src = i /\ ev'.sid = j)
         => /\ sess'[j].address = sess[i].address
            /\ sess'[j].loggerSerial = sess[i].loggerSerial
            /\ sess'[j].timeout = sess[i].timeout
            /\ sess'[j].slaveID = ev'.arg
            /\ sess'[j].serial = sess[i].serial
            /\ sess'[j].conn = NIL
            /\ sess'[i] = sess[i]]_vars

\* C24 witness: the last call was a Clone of a connected source at sequence
\* 65535 with timeout 10 and another slave ID; the clone has no socket.
C24_Witness ==
  /\ ev.op = "clone"
  /\ sess[ev.src].conn # NIL
  /\ sess[ev.src].serial = 65535
  /\ sess[ev.src].timeout = 10
  /\ sess[ev.sid].conn = NIL
  /\ sess[ev.sid].serial = 65535
  /\ sess[ev.sid].slaveID # sess[ev.src].slaveID

\* C25: a clone and its source are independent: no two sessions have the
\* same socket, a session's mutex is held only by a goroutine in a call on
\* that session, a Lock on a session whose mutex is unlocked can proceed
\* whatever the other session's mutex is, and a step of a call, a Close or a
\* setter on one session changes no field of another.
C25_CloneAndSourceIndependent ==
  /\ [](\A i, j \in Sessions :
          (i # j /\ Live(i) /\ Live(j) /\ sess[i].conn # NIL)
            => sess[i].conn # sess[j].conn)
  /\ [](\A i \in Sessions, t \in Threads :
          sess[i].mutex = t => gor[t].sid = i)
  /\ [](\A t \in Threads :
          (gor[t].pc \in LockPoints /\ sess[gor[t].sid].mutex = Free)
            => ENABLED LockOwn(t))
  /\ [][\A j \in Sessions :
          (Live(j) /\ sess'[j] # sess[j])
            => \/ \E t \in Threads : gor[t].sid = j /\ gor'[t] # gor[t]
               \/ /\ gor' = gor
                  /\ ev'.sid = j
                  /\ ev'.op \in {"slave", "timeout"}]_vars

\* C25 witness: a goroutine holds the source's mutex inside Connect while
\* another, in an exchange on the clone, has taken the clone's mutex, and
\* the two sessions differ in slave ID and timeout.
C25_Witness ==
  \E t, u \in Threads :
    /\ gor[t] = [pc |-> "cn_body", sid |-> 1]
    /\ sess[1].mutex = t
    /\ gor[u] = [pc |-> "sm_connect_lock", sid |-> 2]
    /\ sess[2].mutex = u
    /\ sess[1].slaveID # sess[2].slaveID
    /\ sess[1].timeout # sess[2].timeout

\* C26: Close leaves the session with no socket and every other field as it
\* was, whether there was a socket or not (so a second Close changes
\* nothing), and the session stays usable: an exchange called on a session
\* without socket reopens the socket or returns its error.
C26_CloseIdempotentAndReusable ==
  /\ [][\A t \in Threads :
          (gor[t].pc = "cl_body" /\ gor'[t].pc = "returned")
            => sess'[gor[t].sid] =
                 [sess[gor[t].sid] EXCEPT !.conn = NIL, !.mutex = Free]]_vars
  /\ \A t \in Threads, i \in Sessions :
       (gor[t] = [pc |-> "sm_lock", sid |-> i] /\ sess[i].conn = NIL)
         ~> (sess[i].conn # NIL \/ gor[t].pc = "returned")

\* C27: the socket field and the sequence of a session change only in a step
\* of the goroutine that holds the session's mutex, under every interleaving
\* of exchange, Connect, Close, Clone, SetDeadline and the setters.
C27_SocketAndSequenceOnlyUnderMutex ==
  [][\A i \in Sessions :
       (Live(i) /\ (sess'[i].conn # sess[i].conn
                      \/ sess'[i].serial # sess[i].serial))
         => \E t \in Threads :
              /\ sess[i].mutex = t
              /\ gor[t].sid = i
              /\ gor'[t] # gor[t]
              /\ \A u \in Threads \ {t} : gor'[u] = gor[u]]_vars

\* C27 witness: a goroutine inside Close holds the mutex of a connected
\* session while another goroutine waits at a Lock of the same session.
C27_Witness ==
  \E t, u \in Threads :
    /\ t # u
    /\ gor[t].pc = "cl_body"
    /\ sess[gor[t].sid].mutex = t
    /\ sess[gor[t].sid].conn # NIL
    /\ gor[u].sid = gor[t].sid
    /\ gor[u].pc \in LockPoints

\* C30: an exchange makes at most one connect attempt (after the attempt it
\* is never again at a Lock or inside Connect before it returns), and it
\* returns to its caller, with the error when there was one.
C30_NoRetryAndErrorsSurface ==
  /\ [][\A t \in Threads :
          pc[t] = "sm_connect_body"
            => pc'[t] \in {"sm_connect_body", "sm_deadline", "returned"}]_vars
  /\ \A t \in Threads : ExchangeCalled(t) ~> pc[t] = "returned"

\* C31: one TCP connection carries successive exchanges: a connection is
\* opened only when the session has no socket, an exchange that returns
\* success leaves the socket present, and an exchange called on a session
\* with a socket goes on to use that socket (it gets past its connect step
\* or returns) unless the socket is closed meanwhile.
C31_OneConnectionCarriesExchanges ==
  /\ [][(conn' # conn /\ conn' # NIL) => conn = NIL]_vars
  /\ [][\A t \in Threads :
          (ExchangeCalled(t) /\ pc'[t] = "returned" /\ res'[t] = "ok")
            => conn' # NIL]_vars
  /\ \A t \in Threads, k \in 1..MaxConns :
       (pc[t] = "sm_lock" /\ conn = k)
         ~> (conn # k \/ pc[t] \in {"sm_deadline", "returned"})

\* C32: a built packet is consistent with its own length field: its total
\* length is 11 + the little-endian value at offsets 1..2 + 2, that is, the
\* field counts the bytes between the 11-byte header and the 2-byte trailer.
C32_LengthFieldFramesThePacket ==
  codec.op = "build" =>
    /\ Len(codec.out) = headerSize + Uint16LE(codec.out, 2) + trailerSize
    /\ Uint16LE(codec.out, 2) = Len(codec.out) - headerSize - trailerSize

\* C33: for a write-multiple operation (FC 0x0F, 0x10, 0x17) that passes its
\* argument checks the byte count in the RTU frame is len(data), which is at
\* most 255, and the length field of the packet built from the frame is the
\* payload size the builder computes, 15 + the frame's length, below 2^16.
C33_CountsAreNotTruncated ==
  codec.op = "envelope" =>
    LET c == codec.call
        count == IF c.fc = 23 THEN codec.in[11] ELSE codec.in[7]
    IN /\ Len(c.value) <= 255
       /\ count = Len(c.value)
       /\ requestPayloadMin + Len(codec.in) < 65536
       /\ codec.out[2] + 256 * codec.out[3]
            = requestPayloadMin + Len(codec.in)

\* C33 witness: the packet of a write of 123 registers has been built; its
\* frame carries byte count 246 and 246 data bytes.
C33_Witness ==
  /\ codec.op = "envelope"
  /\ codec.call.fc = 16
  /\ Len(codec.call.value) = 246
  /\ codec.in[7] = 246
  /\ Len(codec.in) = 255

====
